---- MODULE Spec2Model ----
(***************************************************************************)
(* Model of CAS_verification.py: the CAS checksum validator and its table  *)
(* filter, the HMDB identifier / status lookups with their row-wise        *)
(* drivers, and the PubMed hit counter with its resumable loop.            *)
(*                                                                         *)
(* Python values are modelled as follows.  A str is a sequence of          *)
(* one-character strings.  A call's outcome is a record                    *)
(* [kind |-> "return" | "raise", value |-> ...]; True / False are the      *)
(* strings "True" / "False".                                               *)
(***************************************************************************)
EXTENDS Integers, Sequences, FiniteSets, TLC

VARIABLES
    call,        \* CAS validator: the last completed call [fn, arg, ret]
    hmdb,        \* HMDB drivers: the driver call in progress
    pubmed       \* PubMed counter: the call in progress

vars == <<call, hmdb, pubmed>>

\* Longest CAS string handed to validate_cas_number.
MaxLen == 5
\* Most rows of a table handed to find_invalid_cas or to an HMDB driver.
MaxRows == 3
\* Most rows of a table handed to PubMed_results_biomon_terms.
MaxPubMedRows == 3

Return(v) == [kind |-> "return", value |-> v]
Raise(e) == [kind |-> "raise", value |-> e]
PyBool(b) == IF b THEN "True" ELSE "False"

(***************************************************************************)
(* CAS validator                                                           *)
(***************************************************************************)

DigitChars == {"0", "1", "2", "3", "4", "5", "6", "7", "8", "9"}
\* The characters of the inputs: the digits, the hyphen, and a letter.
Chars == DigitChars \cup {"-", "x"}

\* int(ch) for a one-character string of DigitChars.
IntOf(ch) ==
    CASE ch = "0" -> 0 [] ch = "1" -> 1 [] ch = "2" -> 2 [] ch = "3" -> 3
      [] ch = "4" -> 4 [] ch = "5" -> 5 [] ch = "6" -> 6 [] ch = "7" -> 7
      [] ch = "8" -> 8 [] ch = "9" -> 9

\* cas_number.replace("-", "")
StripHyphens(s) == SelectSeq(s, LAMBDA ch : ch # "-")

\* digits[:-1]
AllButLast(s) == SubSeq(s, 1, Len(s) - 1)

\* digits[::-1]
Reversed(s) == [i \in 1..Len(s) |-> s[Len(s) + 1 - i]]

\* zip(digits[::-1], range(1, len(digits) + 1)): the pairs <<digit, weight>>.
ZipWeights(s) == [i \in 1..Len(s) |-> <<Reversed(s)[i], i>>]

RECURSIVE SumProducts(_)
\* sum(int(digit) * weight for digit, weight in pairs)
SumProducts(pairs) ==
    IF pairs = <<>> THEN 0
    ELSE IntOf(pairs[1][1]) * pairs[1][2] + SumProducts(Tail(pairs))

\* The weights run from the front of the digits instead of from the check digit.
ZipWeightsForward(s) == [i \in 1..Len(s) |-> <<s[i], i>>]

WeightedSumForward(s) == SumProducts(ZipWeightsForward(s))

WeightedSum(s) == SumProducts(ZipWeights(s))

\* Malformed input is rejected with False instead of raising.
validate_cas_number_graceful(cas_number) ==
    LET stripped == StripHyphens(cas_number)
        digits == AllButLast(stripped)
    IN  IF \/ stripped = <<>>
           \/ \E i \in 1..Len(stripped) : stripped[i] \notin DigitChars
        THEN Return("False")
        ELSE Return(PyBool(WeightedSum(digits) % 10
                           = IntOf(stripped[Len(stripped)])))

validate_cas_number(cas_number) ==
    LET stripped == StripHyphens(cas_number)
        digits == AllButLast(stripped)
    IN  IF stripped = <<>> THEN Raise("IndexError")
        ELSE IF stripped[Len(stripped)] \notin DigitChars THEN Raise("ValueError")
        ELSE IF \E i \in 1..Len(digits) : digits[i] \notin DigitChars
             THEN Raise("ValueError")
        ELSE Return(PyBool(WeightedSum(digits) % 10
                           = IntOf(stripped[Len(stripped)])))

\* The strings of n characters handed to validate_cas_number.
StringsOfLen(n) == [1..n -> Chars]

\* The rows of the example table of the source, and a row with a malformed number.
ExampleRows ==
    { [cas |-> <<"7", "7", "3", "2", "-", "1", "8", "-", "5">>, chem |-> "Water"],
      [cas |-> <<"8", "0", "-", "0", "5", "-", "7">>, chem |-> "Bisphenol A"],
      [cas |-> <<"1", "2", "3", "-", "4", "5", "-", "6">>, chem |-> "Fictional Compound"],
      [cas |-> <<"5", "0", "-", "0", "0", "-", "0">>, chem |-> "Formaldehyde"],
      [cas |-> <<"5", "0", "-", "0", "0", "-", "x">>, chem |-> "Mistyped"] }

\* The tables of n rows handed to find_invalid_cas.
TablesOfLen(n) == [1..n -> ExampleRows]

\* dataframe[column].apply(validate_cas_number): the outcomes, row by row.
ApplyValidate(dataframe) ==
    [i \in 1..Len(dataframe) |-> validate_cas_number(dataframe[i].cas)]

RECURSIVE SelectRows(_, _)
\* dataframe[mask]: the rows whose mask entry is "True", in order.
SelectRows(dataframe, mask) ==
    IF dataframe = <<>> THEN <<>>
    ELSE LET rest == SelectRows(Tail(dataframe), Tail(mask))
         IN  IF mask[1] = "True" THEN <<dataframe[1]>> \o rest ELSE rest

\* ~valid_mask
Negated(mask) == [i \in 1..Len(mask) |-> PyBool(mask[i] = "False")]

\* The exception of the first row on which the validator raises.
FirstRaise(outcomes) ==
    LET first == CHOOSE i \in 1..Len(outcomes) :
                     /\ outcomes[i].kind = "raise"
                     /\ \A j \in 1..(i - 1) : outcomes[j].kind = "return"
    IN  Raise(outcomes[first].value)

\* A function falling off its end returns None.
ReturnNone == [kind |-> "return_none", value |-> <<>>]

\* The filter keeps the rows that pass instead of the rows that fail.
find_invalid_cas_unnegated(dataframe) ==
    LET outcomes == ApplyValidate(dataframe)
    IN  IF \E i \in 1..Len(outcomes) : outcomes[i].kind = "raise"
        THEN FirstRaise(outcomes)
        ELSE LET valid_mask == [i \in 1..Len(outcomes) |-> outcomes[i].value]
                 invalid_cas_df == SelectRows(dataframe, valid_mask)
             IN  IF invalid_cas_df = <<>> THEN ReturnNone
                 ELSE Return(invalid_cas_df)

find_invalid_cas(dataframe) ==
    LET outcomes == ApplyValidate(dataframe)
    IN  IF \E i \in 1..Len(outcomes) : outcomes[i].kind = "raise"
        THEN FirstRaise(outcomes)
        ELSE LET valid_mask == [i \in 1..Len(outcomes) |-> outcomes[i].value]
                 invalid_cas_df == SelectRows(dataframe, Negated(valid_mask))
             IN  IF invalid_cas_df = <<>> THEN ReturnNone
                 ELSE Return(invalid_cas_df)

NoCall == [fn |-> "none", arg |-> <<>>, ret |-> ReturnNone]

CallValidate ==
    /\ call.fn = "none"
    /\ \E n \in 0..MaxLen : \E s \in StringsOfLen(n) :
           call' = [fn |-> "validate_cas_number", arg |-> s,
                    ret |-> validate_cas_number(s)]
    /\ UNCHANGED <<hmdb, pubmed>>

CallFindInvalid ==
    /\ call.fn = "none"
    /\ \E n \in 0..MaxRows : \E t \in TablesOfLen(n) :
           call' = [fn |-> "find_invalid_cas", arg |-> t,
                    ret |-> find_invalid_cas(t)]
    /\ UNCHANGED <<hmdb, pubmed>>

(***************************************************************************)
(* HMDB lookups.  What the server does for one request is a response       *)
(* record: net is "ok" or the exception requests.get raises, status the    *)
(* HTTP status, parse "ok" or "raise" (BeautifulSoup raising), html the    *)
(* shape of the page.                                                      *)
(***************************************************************************)

Response(net, status, parse, html) ==
    [net |-> net, status |-> status, parse |-> parse, html |-> html]

\* Pages of the search endpoint: a result-link element holding an anchor with an
\* href, an anchor without href, no anchor, or no result-link element at all.
SearchPages == {"link", "anchor_no_href", "no_anchor", "no_marker"}

\* Pages of the metabolite endpoint: a th "Status" followed by a td sibling, a th
\* "Status" with no td sibling, or no th "Status".
StatusPages == {"status_cell", "no_cell", "no_header"}

ResponsesOver(pages) ==
    {Response("Timeout", 0, "ok", "none"), Response("ConnectionError", 0, "ok", "none"),
     Response("ok", 404, "ok", "none"), Response("ok", 200, "raise", "none")}
    \cup {Response("ok", 200, "ok", h) : h \in pages}

SearchResponses == ResponsesOver(SearchPages)
StatusResponses == ResponsesOver(StatusPages)

\* f"Error: {str(e)}"
ErrorString(e) ==
    CASE e = "Timeout" -> "Error: Timeout"
      [] e = "ConnectionError" -> "Error: ConnectionError"
      [] e = "HTTPError" -> "Error: HTTPError"
      [] e = "ParserError" -> "Error: ParserError"
      [] e = "AttributeError" -> "Error: AttributeError"

RECURSIVE LStrip(_)
LStrip(s) == IF s # <<>> /\ s[1] = "'" THEN LStrip(Tail(s)) ELSE s

RECURSIVE RStrip(_)
RStrip(s) ==
    IF s # <<>> /\ s[Len(s)] = "'" THEN RStrip(SubSeq(s, 1, Len(s) - 1)) ELSE s

\* CASid.strip("'")
StripQuotes(s) == RStrip(LStrip(s))

\* requests.get, raise_for_status and BeautifulSoup(...) of both lookups: the
\* exception they raise on response w, or "none".
RequestAndParse(w) ==
    IF w.net # "ok" THEN w.net
    ELSE IF w.status >= 400 THEN "HTTPError"
    ELSE IF w.parse = "raise" THEN "ParserError"
    ELSE "none"

\* The body of extract_hmdb_id's try block.
ExtractTryBody(w) ==
    IF RequestAndParse(w) # "none" THEN Raise(RequestAndParse(w))
    ELSE IF w.html = "link" THEN Return("HMDB0000001")
    ELSE IF w.html = "anchor_no_href" THEN Raise("AttributeError")
    ELSE Return("HMDB ID not found")

\* The body of fetch_HMDB_status's try block.
FetchTryBody(w) ==
    IF RequestAndParse(w) # "none" THEN Raise(RequestAndParse(w))
    ELSE IF w.html = "no_header" THEN Raise("AttributeError")
    ELSE IF w.html = "status_cell" THEN Return("quantified")
    ELSE Return("Not Found")

\* except Exception as e: return f"Error: {str(e)}"
ExceptClause(outcome) ==
    IF outcome.kind = "raise" THEN Return(ErrorString(outcome.value)) ELSE outcome

\* The wait placed at the end of the try block: skipped when the body raises.
SleepsAfterBody(outcome) == IF outcome.kind = "raise" THEN 0 ELSE 1

\* finally: time.sleep(2) -- the number of waits, whatever the body's outcome.
SleepsInFinally(outcome) == 1

\* One invocation of a lookup: what it hands back, the request it issued, its waits.
Invocation(fn, row, query, body) ==
    [fn |-> fn, row |-> row, query |-> query, response |-> body.w,
     outcome |-> ExceptClause(body.outcome),
     sleeps |-> SleepsInFinally(body.outcome)]

extract_hmdb_id(row, CASid, w) ==
    Invocation("extract_hmdb_id", row, StripQuotes(CASid),
               [w |-> w, outcome |-> ExtractTryBody(w)])

fetch_HMDB_status(row, hmdb_id, w) ==
    Invocation("fetch_HMDB_status", row, hmdb_id,
               [w |-> w, outcome |-> FetchTryBody(w)])

\* The superseded driver body: the status is fetched for every row.
always_fetch_status(row, hmdb_id, w) == <<fetch_HMDB_status(row, hmdb_id, w)>>

\* check_and_fetch_status: the invocations it makes (none or one).
check_and_fetch_status(row, hmdb_id, w) ==
    IF hmdb_id # "HMDB ID not found" THEN <<fetch_HMDB_status(row, hmdb_id, w)>>
    ELSE <<>>

\* What check_and_fetch_status returns given the invocations it made.
StatusValue(invocations) ==
    IF invocations = <<>> THEN "None" ELSE invocations[1].outcome.value

\* The casId_final values of the tables: quoted and unquoted CAS numbers.
CasIds == { <<"'", "5", "0", "-", "0", "0", "-", "0", "'">>,
            <<"8", "0", "-", "0", "5", "-", "7">> }

\* The values an HMDB_id column holds after add_HMDBid_to_df.
HmdbIds == {"HMDB0000001", "HMDB ID not found", "Error: Timeout"}

\* The columns of n values of pool.
ColumnsOfLen(pool, n) == [1..n -> pool]

HmdbIdle ==
    [driver |-> "none", column |-> <<>>, results |-> <<>>, log |-> <<>>,
     status |-> "idle", df |-> <<>>]

CallAddHMDBid ==
    /\ hmdb.status = "idle"
    /\ \E n \in 0..MaxRows : \E column \in ColumnsOfLen(CasIds, n) :
           hmdb' = [hmdb EXCEPT !.driver = "add_HMDBid_to_df", !.column = column,
                                !.status = "running"]
    /\ UNCHANGED <<call, pubmed>>

\* progress_apply(extract_hmdb_id): the next element of the column.
ApplyExtract ==
    /\ hmdb.driver = "add_HMDBid_to_df"
    /\ hmdb.status = "running"
    /\ Len(hmdb.results) < Len(hmdb.column)
    /\ \E w \in SearchResponses :
           LET row == Len(hmdb.results) + 1
               inv == extract_hmdb_id(row, hmdb.column[row], w)
           IN  hmdb' = [hmdb EXCEPT !.results = Append(@, inv.outcome.value),
                                    !.log = Append(@, inv)]
    /\ UNCHANGED <<call, pubmed>>

CallAddStatus ==
    /\ hmdb.status = "idle"
    /\ \E n \in 0..MaxRows : \E column \in ColumnsOfLen(HmdbIds, n) :
           hmdb' = [hmdb EXCEPT !.driver = "add_status_to_df", !.column = column,
                                !.status = "running"]
    /\ UNCHANGED <<call, pubmed>>

\* progress_apply(check_and_fetch_status): the next element of the column.
ApplyStatus ==
    /\ hmdb.driver = "add_status_to_df"
    /\ hmdb.status = "running"
    /\ Len(hmdb.results) < Len(hmdb.column)
    /\ \E w \in StatusResponses :
           LET row == Len(hmdb.results) + 1
               invs == check_and_fetch_status(row, hmdb.column[row], w)
           IN  hmdb' = [hmdb EXCEPT !.results = Append(@, StatusValue(invs)),
                                    !.log = @ \o invs]
    /\ UNCHANGED <<call, pubmed>>

\* df[...] = <the applied column>; return df
ReturnDriver ==
    /\ hmdb.status = "running"
    /\ Len(hmdb.results) = Len(hmdb.column)
    /\ hmdb' = [hmdb EXCEPT !.status = "returned", !.df = hmdb.results]
    /\ UNCHANGED <<call, pubmed>>

(***************************************************************************)
(* PubMed hit counter.  A table row is [label, name]: label is the row's   *)
(* index label, which df.iterrows() yields as `index`.                     *)
(***************************************************************************)

\* Pages of the search endpoint: with a span of class "value", or without one.
PubMedPages == {"value", "no_marker"}

\* requests.get(url, timeout=20, ...) raises or answers; no HTTP status is
\* checked, so an error page is a page like any other, and html.parser takes
\* whatever bytes it is given.
PubMedResponses ==
    {Response("Timeout", 0, "ok", "none"), Response("ConnectionError", 0, "ok", "none"),
     Response("ok", 404, "ok", "no_marker")}
    \cup {Response("ok", 200, "ok", h) : h \in PubMedPages}

\* The entry of the response log for a row that is skipped.
NoRequest == Response("none", 0, "ok", "none")

\* name.replace(" ", "+")
ReplaceSpaces(name) == [i \in 1..Len(name) |-> IF name[i] = " " THEN "+" ELSE name[i]]

\* The url of a row: search_url("name") and, if search_string is truthy, the suffix.
Url(name, search_string) ==
    [query |-> ReplaceSpaces(name),
     suffix |-> IF search_string \in {"None", ""} THEN "" ELSE search_string]

\* n_results[index] = value on a Python list: a negative index counts from the
\* end, an index outside -len..len-1 raises IndexError.
SetItem(n_results, index, value) ==
    LET n == Len(n_results)
    IN  IF 0 <= index /\ index < n
            THEN Return([n_results EXCEPT ![index + 1] = value])
        ELSE IF -n <= index /\ index < 0
            THEN Return([n_results EXCEPT ![n + index + 1] = value])
        ELSE Raise("IndexError")

\* The state of a call: the output list, the requests issued (the position of the
\* row in the table and the url), the responses received, and how it stands.
PubMedStart(df) ==
    [n_results |-> [i \in 1..Len(df) |-> "NA"], requests |-> <<>>,
     responses |-> <<>>, status |-> "running", exc |-> "none"]

Stored(st, assignment) ==
    IF assignment.kind = "raise"
    THEN [st EXCEPT !.status = "raised", !.exc = assignment.value]
    ELSE [st EXCEPT !.n_results = assignment.value]

\* The slot of n_results the loop writes for a row: `index`, the row's label.
ResultSlot(pos, label) == label

\* One iteration of the for loop, on the row at position pos with response w.
LoopBody(st, df, pos, resume_from, search_string, w) ==
    LET index == df[pos].label
        slot == ResultSlot(pos, index)
        asked == [st EXCEPT !.requests = Append(@, [pos |-> pos,
                                   url |-> Url(df[pos].name, search_string)]),
                            !.responses = Append(@, w)]
    IN  IF index < resume_from
            THEN [st EXCEPT !.responses = Append(@, NoRequest)]
        ELSE IF w.net = "Timeout"
            THEN Stored(asked, SetItem(asked.n_results, slot, "TIMEOUT"))
        ELSE IF w.net # "ok"
            THEN [asked EXCEPT !.status = "raised", !.exc = w.net]
        ELSE IF /\ w.html = "value"
                /\ SetItem(asked.n_results, slot, "['1,234']").kind = "return"
            THEN Stored(asked, SetItem(asked.n_results, slot, "['1,234']"))
        ELSE Stored(asked, SetItem(asked.n_results, slot, "NA"))

RECURSIVE RunFrom(_, _, _, _, _, _)
\* The for loop from position pos on, with the responses given row by row.
RunFrom(st, df, pos, resume_from, search_string, responses) ==
    IF st.status = "raised" THEN st
    ELSE IF pos > Len(df) THEN [st EXCEPT !.status = "returned"]
    ELSE RunFrom(LoopBody(st, df, pos, resume_from, search_string, responses[pos]),
                 df, pos + 1, resume_from, search_string, responses)

\* PubMed_results_biomon_terms as a function of the table and the responses.
PubMed_results_biomon_terms(df, search_string, resume_from, responses) ==
    RunFrom(PubMedStart(df), df, 1, resume_from, search_string, responses)

\* The index labels a table's rows carry.
Labels == 0..MaxPubMedRows

Names == { <<"B", "P", "A">>, <<"b", "i", "s", " ", "A">> }

PubMedRowPool == {[label |-> l, name |-> nm] : l \in Labels, nm \in Names}

\* The tables of n rows handed to PubMed_results_biomon_terms.
PubMedTablesOfLen(n) == [1..n -> PubMedRowPool]

SearchStrings == {"None", "+AND+(human)"}

PubMedIdle ==
    [df |-> <<>>, search_string |-> "None", resume_from |-> 0, pos |-> 0,
     run |-> [n_results |-> <<>>, requests |-> <<>>, responses |-> <<>>,
              status |-> "idle", exc |-> "none"]]

CallPubMed ==
    /\ pubmed.run.status = "idle"
    /\ \E n \in 0..MaxPubMedRows, search_string \in SearchStrings :
       \E df \in PubMedTablesOfLen(n) :
       \E resume_from \in 0..Len(df) :
           pubmed' = [df |-> df, search_string |-> search_string,
                      resume_from |-> resume_from, pos |-> 1,
                      run |-> PubMedStart(df)]
    /\ UNCHANGED <<call, hmdb>>

IteratePubMed ==
    /\ pubmed.run.status = "running"
    /\ pubmed.pos <= Len(pubmed.df)
    /\ \E w \in PubMedResponses :
           pubmed' = [pubmed EXCEPT
                        !.run = LoopBody(@, pubmed.df, pubmed.pos, pubmed.resume_from,
                                         pubmed.search_string, w),
                        !.pos = @ + 1]
    /\ UNCHANGED <<call, hmdb>>

ReturnPubMed ==
    /\ pubmed.run.status = "running"
    /\ pubmed.pos > Len(pubmed.df)
    /\ pubmed' = [pubmed EXCEPT !.run.status = "returned"]
    /\ UNCHANGED <<call, hmdb>>

(***************************************************************************)
(* Specifications                                                          *)
(***************************************************************************)

Init ==
    /\ call = NoCall
    /\ hmdb = HmdbIdle
    /\ pubmed = PubMedIdle

NextCAS ==
    \/ CallValidate
    \/ CallFindInvalid

NextHMDB ==
    \/ CallAddHMDBid
    \/ ApplyExtract
    \/ CallAddStatus
    \/ ApplyStatus
    \/ ReturnDriver

NextPubMed ==
    \/ CallPubMed
    \/ IteratePubMed
    \/ ReturnPubMed

SpecCAS == Init /\ [][NextCAS]_vars
SpecHMDB == Init /\ [][NextHMDB]_vars
SpecPubMed == Init /\ [][NextPubMed]_vars

(***************************************************************************)
(* Properties of the CAS validator (SpecCAS)                               *)
(***************************************************************************)

\* The input, hyphens stripped, is at least two characters, all decimal digits.
WellFormed(s) ==
    /\ Len(StripHyphens(s)) >= 2
    /\ \A i \in 1..Len(StripHyphens(s)) : StripHyphens(s)[i] \in DigitChars

RECURSIVE DistanceWeightedSum(_, _)
\* S of the claim: the digit at position p before the check digit, weighted by
\* its distance Len(d) - p to the check digit.
DistanceWeightedSum(d, p) ==
    IF p >= Len(d) THEN 0
    ELSE IntOf(d[p]) * (Len(d) - p) + DistanceWeightedSum(d, p + 1)

\* C1: on every input that is, hyphens stripped, at least two decimal digits,
\* validate_cas_number returns True if S mod 10 equals the check digit and False
\* otherwise, S weighting each digit by its distance to the check digit.
C1_ChecksumIff ==
    (call.fn = "validate_cas_number" /\ WellFormed(call.arg)) =>
        LET d == StripHyphens(call.arg)
            valid == DistanceWeightedSum(d, 1) % 10 = IntOf(d[Len(d)])
        IN  /\ call.ret.kind = "return"
            /\ call.ret.value = PyBool(valid)

\* A hyphenated number with two digits before the check digit, found valid.
C1_Witness ==
    /\ call.fn = "validate_cas_number"
    /\ call.arg = <<"1", "2", "-", "4">>
    /\ call.ret = Return("True")

\* Every row of the table holds a well-formed CAS string.
WellFormedTable(t) == \A i \in 1..Len(t) : WellFormed(t[i].cas)

\* The positions of the rows on which validate_cas_number is False.
FailingPositions(t) ==
    {i \in 1..Len(t) : validate_cas_number(t[i].cas) = Return("False")}

\* The j-th failing position, in row order.
NthFailing(t, j) ==
    CHOOSE i \in FailingPositions(t) :
        Cardinality({k \in FailingPositions(t) : k <= i}) = j

\* C2: on a table of well-formed CAS strings find_invalid_cas returns exactly the
\* rows on which validate_cas_number is False, whole and in their original order,
\* and returns None (no subset) when no row fails.
C2_FilterExact ==
    (call.fn = "find_invalid_cas" /\ WellFormedTable(call.arg)) =>
        IF FailingPositions(call.arg) = {}
        THEN call.ret.kind = "return_none"
        ELSE /\ call.ret.kind = "return"
             /\ Len(call.ret.value) = Cardinality(FailingPositions(call.arg))
             /\ \A j \in 1..Len(call.ret.value) :
                    call.ret.value[j] = call.arg[NthFailing(call.arg, j)]

\* A table of valid and invalid rows, of which a proper, non-empty part is returned.
C2_Witness ==
    /\ call.fn = "find_invalid_cas"
    /\ WellFormedTable(call.arg)
    /\ Len(call.arg) = 3
    /\ call.ret.kind = "return"
    /\ Len(call.ret.value) = 1
    /\ call.arg[2] = call.ret.value[1]

\* The input has a character that is neither a digit nor a hyphen.
HasNonDigit(s) == \E i \in 1..Len(s) : s[i] \notin DigitChars \cup {"-"}

\* C10 as stated: validate_cas_number raises on every malformed input: one with a
\* non-digit character other than a hyphen, one that is empty once the hyphens
\* are stripped, and one with a single digit (no digit before the check digit).
C10_RaisesOnMalformed ==
    (/\ call.fn = "validate_cas_number"
     /\ \/ HasNonDigit(call.arg)
        \/ Len(StripHyphens(call.arg)) <= 1) =>
        call.ret.kind = "raise"

\* C10 as amended: validate_cas_number raises ValueError on an input with a
\* non-digit character other than a hyphen and IndexError on an input that is
\* empty once the hyphens are stripped; on a single digit it raises nothing and
\* returns True for 0 and False for any other digit.
C10_MalformedOutcome ==
    call.fn = "validate_cas_number" =>
        LET d == StripHyphens(call.arg)
        IN  /\ HasNonDigit(call.arg) => call.ret = Raise("ValueError")
            /\ d = <<>> => call.ret = Raise("IndexError")
            /\ (Len(d) = 1 /\ d[1] \in DigitChars) =>
                   call.ret = Return(PyBool(d[1] = "0"))

\* A single non-zero digit, for which False is returned.
C10_Witness ==
    /\ call.fn = "validate_cas_number"
    /\ call.arg = <<"-", "5">>
    /\ call.ret = Return("False")

(***************************************************************************)
(* Properties of the HMDB lookups (SpecHMDB)                               *)
(***************************************************************************)

\* The log entries of the invocations made for row i.
InvocationsFor(i) == {j \in 1..Len(hmdb.log) : hmdb.log[j].row = i}

\* C6: add_status_to_df never invokes fetch_HMDB_status for a row whose
\* identifier is "HMDB ID not found", whose status is None; for every other row
\* it invokes fetch_HMDB_status exactly once, and the invocations are in row order.
C6_ShortCircuit ==
    hmdb.driver = "add_status_to_df" =>
        /\ \A i \in 1..Len(hmdb.results) :
               IF hmdb.column[i] = "HMDB ID not found"
               THEN InvocationsFor(i) = {} /\ hmdb.results[i] = "None"
               ELSE Cardinality(InvocationsFor(i)) = 1
        /\ \A j \in 1..Len(hmdb.log) :
               /\ hmdb.log[j].fn = "fetch_HMDB_status"
               /\ hmdb.log[j].row \in 1..Len(hmdb.results)
               /\ hmdb.log[j].query = hmdb.column[hmdb.log[j].row]
        /\ \A j, k \in 1..Len(hmdb.log) :
               j < k => hmdb.log[j].row < hmdb.log[k].row

\* A finished run over a not-found row between two rows that are looked up.
C6_Witness ==
    /\ hmdb.driver = "add_status_to_df"
    /\ hmdb.status = "returned"
    /\ hmdb.column = <<"HMDB0000001", "HMDB ID not found", "Error: Timeout">>
    /\ Len(hmdb.log) = 2
    /\ hmdb.df[2] = "None"

C8_NoCellIsNotFound ==
    \A j \in 1..Len(hmdb.log) :
        (/\ hmdb.log[j].fn = "fetch_HMDB_status"
         /\ RequestAndParse(hmdb.log[j].response) = "none"
         /\ hmdb.log[j].response.html \in {"no_cell", "no_header"}) =>
            hmdb.log[j].outcome = Return("Not Found")

(***************************************************************************)
(* Properties of the PubMed hit counter (SpecPubMed)                       *)
(***************************************************************************)

\* The call is over: it returned or an exception reached the caller.
PubMedOver == pubmed.run.status \in {"returned", "raised"}

\* The exceptions that are failures of the external lookup.
LookupFailures == {"Timeout", "ConnectionError", "HTTPError", "ParserError"}

\* C3: no failure of the external lookup for one row aborts the batch: no such
\* exception reaches the caller of a driver.
C3_NoLookupFailureAborts ==
    /\ hmdb.status # "raised"
    /\ pubmed.run.status = "raised" => pubmed.run.exc \notin LookupFailures

\* The table carries the default labels 0, 1, ..., n-1.
DefaultLabels(df) == \A i \in 1..Len(df) : df[i].label = i - 1

\* The requests issued for the row at position pos.
RequestsFor(pos) ==
    {j \in 1..Len(pubmed.run.requests) : pubmed.run.requests[j].pos = pos}

\* The responses of an uninterrupted run: those received, and for the rows the
\* resumed run skipped, any.
RECURSIVE Completions(_)
Completions(responses) ==
    IF responses = <<>> THEN {<<>>}
    ELSE LET heads == IF responses[1] = NoRequest THEN PubMedResponses
                      ELSE {responses[1]}
         IN  {<<h>> \o t : h \in heads, t \in Completions(Tail(responses))}

\* C4, on tables with the default labels: once a call with resume_from = k is
\* over, no request was issued for a row with index < k, exactly one for every
\* row with index >= k, and on return the slots below k hold NA and the slots
\* from k on equal those of a run with resume_from = 0 on the same responses.
C4_Resume ==
    (PubMedOver /\ DefaultLabels(pubmed.df)) =>
        /\ \A pos \in 1..Len(pubmed.df) :
               IF pos - 1 < pubmed.resume_from
               THEN RequestsFor(pos) = {}
               ELSE Cardinality(RequestsFor(pos)) = 1
        /\ pubmed.run.status = "returned" =>
               /\ \A pos \in 1..pubmed.resume_from : pubmed.run.n_results[pos] = "NA"
               /\ \A all \in Completions(pubmed.run.responses) :
                      LET whole == PubMed_results_biomon_terms(
                                       pubmed.df, pubmed.search_string, 0, all)
                      IN  whole.status = "returned" =>
                              \A pos \in (pubmed.resume_from + 1)..Len(pubmed.df) :
                                  pubmed.run.n_results[pos] = whole.n_results[pos]

\* C5: when the call returns, the slot of a row whose request timed out holds
\* TIMEOUT, and every other slot is what it is in the run in which that row's
\* request does not time out.
C5_TimeoutIsolated ==
    pubmed.run.status = "returned" =>
        \A i \in 1..Len(pubmed.df) :
            pubmed.run.responses[i].net = "Timeout" =>
                /\ pubmed.run.n_results[i] = "TIMEOUT"
                /\ \A alt \in {w \in PubMedResponses : w.net # "Timeout"} :
                       LET other == PubMed_results_biomon_terms(
                                        pubmed.df, pubmed.search_string,
                                        pubmed.resume_from,
                                        [pubmed.run.responses EXCEPT ![i] = alt])
                       IN  other.status = "returned" =>
                               \A j \in 1..Len(pubmed.df) :
                                   j # i => other.n_results[j] = pubmed.run.n_results[j]

\* The result the loop records for a response.
ResultOf(w) ==
    IF w.net = "Timeout" THEN "TIMEOUT"
    ELSE IF w.net = "ok" /\ w.html = "value" THEN "['1,234']"
    ELSE "NA"

\* C9: whatever labels the table carries, the call returns a list as long as the
\* table in which position i holds the result of the row at position i; the
\* table is left as it was.
C9_Positional ==
    /\ pubmed.run.status = "raised" => pubmed.run.exc # "IndexError"
    /\ pubmed.run.status = "returned" =>
           /\ Len(pubmed.run.n_results) = Len(pubmed.df)
           /\ \A pos \in 1..Len(pubmed.df) :
                  pubmed.run.n_results[pos] = ResultOf(pubmed.run.responses[pos])

====
